---------------------------- MODULE Spec2Model ----------------------------
(***************************************************************************)
(* Model of tools/publish.py: the metadata normalizer (normalize_meta,     *)
(* _pick_latest_release), the validator (validate_meta, has_any_download)  *)
(* and the publishing run (main).                                          *)
(*                                                                         *)
(* JSON values are tagged records [k, v]:                                  *)
(*   str  : v is the string as a sequence of characters                    *)
(*   list : v is the sequence of the elements                              *)
(*   dict : v is a function from the keys present to their values          *)
(*   num  : a JSON number (a value that is no string, list or object)      *)
(*   none : Python's None, what dict.get returns for a key that is absent  *)
(* A record (meta) is the bare function of a dict.                         *)
(***************************************************************************)
EXTENDS Naturals, Sequences, FiniteSets

VARIABLES
    meta,       \* SpecNorm: the record the functions are applied to (mutated in place)
    arg,        \* SpecNorm: the record as it was when the last call was made
    call,       \* SpecNorm: the function last called
    ret,        \* SpecNorm: what the last call returned (or the exception it raised)
    pc,         \* main: position in main ("start", "loop", "done"; "idle" when main does not run)
    exists,     \* main: whether the liveries/ folder exists
    files,      \* main: the *.meta.json files of liveries/, from file name to content
    idx,        \* main: number of sources the loop has processed
    items,      \* main: the local list items
    failed,     \* main: the local flag failed
    printed,    \* main: the lines printed about sources, as <<file, message>>
    manifest,   \* main: content of manifest.json on disk
    rc          \* main: exit status returned by main (NoRc while running)

vars == <<meta, arg, call, ret, pc, exists, files, idx, items, failed, printed, manifest, rc>>

normVars == <<meta, arg, call, ret>>
mainVars == <<pc, exists, files, idx, items, failed, printed, manifest, rc>>

----------------------------------------------------------------------------
(* Bounds of the model *)

MaxReleases == 2
MaxDownloads == 1
MaxFiles == 2

----------------------------------------------------------------------------
(* JSON / Python values *)

None == [k |-> "none", v |-> <<>>]
Num == [k |-> "num", v |-> <<>>]
Str(s) == [k |-> "str", v |-> s]
List(s) == [k |-> "list", v |-> s]
Dict(d) == [k |-> "dict", v |-> d]

EmptyDict == [q \in {} |-> None]

IsStr(x) == x.k = "str"
IsList(x) == x.k = "list"
IsDict(x) == x.k = "dict"

\* d.get(key) and d.get(key, default)
GetD(d, key, default) == IF key \in DOMAIN d THEN d[key] ELSE default
Get(d, key) == GetD(d, key, None)

\* d[key] = val
Put(d, key, val) == [q \in (DOMAIN d) \cup {key} |-> IF q = key THEN val ELSE d[q]]

Whitespace == {" "}

RECURSIVE lstrip(_)
lstrip(s) == IF s # <<>> /\ Head(s) \in Whitespace THEN lstrip(Tail(s)) ELSE s

RECURSIVE rstrip(_)
rstrip(s) ==
    IF s # <<>> /\ s[Len(s)] \in Whitespace THEN rstrip(SubSeq(s, 1, Len(s) - 1)) ELSE s

\* str.strip()
strip(s) == rstrip(lstrip(s))

is_nonempty_string(x) == IsStr(x) /\ strip(x.v) # <<>>

Min(S) == CHOOSE m \in S : \A n \in S : m <= n

----------------------------------------------------------------------------
(* _pick_latest_release: the selected release (a dict value) or None *)

MatchingReleases(releases, latest) ==
    {i \in 1..Len(releases) : IsDict(releases[i]) /\ Get(releases[i].v, "version") = latest}

\* variant: the last matching release is returned instead of the first
_pick_latest_release_LastMatch(m) ==
    LET releases == Get(m, "releases")
        latest == Get(m, "latest_version")
        matching == IF IsList(releases) THEN MatchingReleases(releases.v, latest) ELSE {}
    IN  IF ~IsList(releases) \/ releases.v = <<>> THEN None
        ELSE IF is_nonempty_string(latest) /\ matching # {}
             THEN releases.v[CHOOSE i \in matching : \A j \in matching : j <= i]
        ELSE IF IsDict(releases.v[1]) THEN releases.v[1]
        ELSE None

_pick_latest_release(m) ==
    LET releases == Get(m, "releases")
        latest == Get(m, "latest_version")
    IN  IF ~IsList(releases) \/ releases.v = <<>> THEN None
        ELSE IF is_nonempty_string(latest) /\ MatchingReleases(releases.v, latest) # {}
             THEN releases.v[Min(MatchingReleases(releases.v, latest))]
        ELSE IF IsDict(releases.v[1]) THEN releases.v[1]
        ELSE None

----------------------------------------------------------------------------
(* normalize_meta *)

NoExc == "no exception"
ExcNoReleases == "missing releases[] entries (new schema requires releases[])"
ExcNoLatest == "missing latest_version (or releases[0].version)"

\* variant: the guard does not look at an existing version
TakesNewSchema_IgnoresVersion(m) ==
    /\ "latest_version" \in DOMAIN m
    /\ "releases" \in DOMAIN m

\* the guard of line 44
TakesNewSchema(m) ==
    /\ "latest_version" \in DOMAIN m
    /\ "releases" \in DOMAIN m
    /\ ~is_nonempty_string(Get(m, "version"))

\* lines 49-52
ResolveLatest(m, rel) ==
    IF is_nonempty_string(Get(m, "latest_version")) THEN Get(m, "latest_version")
    ELSE Get(rel.v, "version")

\* lines 60-69: the dict of one platform of the selected release
PlatformOf(rel, platform) ==
    LET d0 == GetD(rel.v, "downloads", Dict(EmptyDict))
        downloads == IF IsDict(d0) THEN d0 ELSE Dict(EmptyDict)
        p0 == GetD(downloads.v, platform, Dict(EmptyDict))
    IN  IF IsDict(p0) THEN p0.v ELSE EmptyDict

\* variant: the derived url replaces an existing one
DeriveUrl_Overwrites(m, fs, field) ==
    IF is_nonempty_string(Get(fs, "url")) THEN Put(m, field, fs["url"]) ELSE m

\* lines 71-74
DeriveUrl(m, fs, field) ==
    IF is_nonempty_string(Get(fs, "url")) /\ ~is_nonempty_string(Get(m, field))
    THEN Put(m, field, fs["url"])
    ELSE m

\* lines 76-79
DeriveFolders(m, fs, field) ==
    IF IsList(Get(fs, "package_folders")) /\ ~IsList(Get(m, field))
    THEN Put(m, field, GetD(fs, "package_folders", List(<<>>)))
    ELSE m

\* lines 91-97
ChangelogEntry(r) ==
    Dict([version |-> Get(r.v, "version"),
          date |-> GetD(r.v, "date", Str(<<>>)),
          changes |-> IF IsList(GetD(r.v, "changes", List(<<>>)))
                      THEN GetD(r.v, "changes", List(<<>>))
                      ELSE List(<<>>)])

\* lines 82-97
BuildChangelog(m) ==
    LET releases == GetD(m, "releases", List(<<>>))
        kept == IF IsList(releases)
                THEN SelectSeq(releases.v,
                               LAMBDA r : IsDict(r) /\ is_nonempty_string(Get(r.v, "version")))
                ELSE <<>>
    IN  [i \in 1..Len(kept) |-> ChangelogEntry(kept[i])]

\* lines 98-99
DeriveChangelog(m) ==
    IF BuildChangelog(m) # <<>> /\ ~IsList(Get(m, "changelog"))
    THEN Put(m, "changelog", List(BuildChangelog(m)))
    ELSE m

\* variant: the downloads are taken from releases[0] instead of the selected release
Derive_FromFirstRelease(m, rel, latest) ==
    LET first == IF IsDict(m["releases"].v[1]) THEN m["releases"].v[1] ELSE rel
        fs20 == PlatformOf(first, "fs20")
        fs24 == PlatformOf(first, "fs24")
        m1 == Put(m, "version", latest)
        m2 == DeriveUrl(m1, fs20, "download_fs20")
        m3 == DeriveUrl(m2, fs24, "download_fs24")
        m4 == DeriveFolders(m3, fs20, "package_folders_fs20")
        m5 == DeriveFolders(m4, fs24, "package_folders_fs24")
    IN  DeriveChangelog(m5)

\* lines 57-99, for the selected release rel and the resolved version latest
Derive(m, rel, latest) ==
    LET fs20 == PlatformOf(rel, "fs20")
        fs24 == PlatformOf(rel, "fs24")
        m1 == Put(m, "version", latest)
        m2 == DeriveUrl(m1, fs20, "download_fs20")
        m3 == DeriveUrl(m2, fs24, "download_fs24")
        m4 == DeriveFolders(m3, fs20, "package_folders_fs20")
        m5 == DeriveFolders(m4, fs24, "package_folders_fs24")
    IN  DeriveChangelog(m5)

\* the result: the exception raised (NoExc when none) and the record afterwards
normalize_meta(m) ==
    IF ~TakesNewSchema(m) THEN [exc |-> NoExc, meta |-> m]
    ELSE LET rel == _pick_latest_release(m)
         IN  IF rel = None THEN [exc |-> ExcNoReleases, meta |-> m]
             ELSE IF ~is_nonempty_string(ResolveLatest(m, rel))
                  THEN [exc |-> ExcNoLatest, meta |-> m]
             ELSE [exc |-> NoExc, meta |-> Derive(m, rel, ResolveLatest(m, rel))]

----------------------------------------------------------------------------
(* has_any_download and validate_meta *)

HasDownloadField(m) ==
    \/ is_nonempty_string(Get(m, "download_fs20"))
    \/ is_nonempty_string(Get(m, "download_fs2020"))
    \/ is_nonempty_string(Get(m, "download_fs24"))
    \/ is_nonempty_string(Get(m, "download_fs2024"))

HasDownloadsEntry(m) ==
    LET downloads == GetD(m, "downloads", List(<<>>))
    IN  /\ IsList(downloads)
        /\ \E i \in 1..Len(downloads.v) :
              /\ IsDict(downloads.v[i])
              /\ is_nonempty_string(Get(downloads.v[i].v, "url"))

\* the result: the exception raised, the value returned, the record afterwards
has_any_download(m) ==
    LET n == normalize_meta(m)
    IN  IF n.exc # NoExc THEN [exc |-> n.exc, value |-> FALSE, meta |-> n.meta]
        ELSE [exc |-> NoExc,
              value |-> HasDownloadField(n.meta) \/ HasDownloadsEntry(n.meta),
              meta |-> n.meta]

ErrId == "missing required field: id"
ErrVersion == "missing required field: version (or latest_version + releases[])"
ErrDownloads == "missing downloads (provide download_fs20 / download_fs24, downloads[] with url, OR latest_version + releases[].downloads.{fs20,fs24}.url)"

\* variant: validation stops at the first rule that is broken
validate_meta_ShortCircuit(m) ==
    LET n == normalize_meta(m)
    IN  IF n.exc # NoExc THEN [errors |-> <<n.exc>>, meta |-> n.meta]
        ELSE LET h == has_any_download(n.meta)
             IN  [errors |->
                      IF ~is_nonempty_string(Get(n.meta, "id")) THEN <<ErrId>>
                      ELSE IF ~is_nonempty_string(Get(n.meta, "version")) THEN <<ErrVersion>>
                      ELSE IF ~h.value THEN <<ErrDownloads>>
                      ELSE <<>>,
                  meta |-> h.meta]

\* variant: the exception of normalize_meta is recorded and the rules are checked all the same
validate_meta_NoEarlyReturn(m) ==
    LET n == normalize_meta(m)
    IN  [errors |->
             (IF n.exc # NoExc THEN <<n.exc>> ELSE <<>>)
             \o (IF ~is_nonempty_string(Get(n.meta, "id")) THEN <<ErrId>> ELSE <<>>)
             \o (IF ~is_nonempty_string(Get(n.meta, "version")) THEN <<ErrVersion>> ELSE <<>>)
             \o (IF ~(HasDownloadField(n.meta) \/ HasDownloadsEntry(n.meta))
                 THEN <<ErrDownloads>> ELSE <<>>),
         meta |-> n.meta]

\* the result: the list of errors and the record afterwards
validate_meta(m) ==
    LET n == normalize_meta(m)
    IN  IF n.exc # NoExc THEN [errors |-> <<n.exc>>, meta |-> n.meta]
        ELSE LET h == has_any_download(n.meta)
             IN  [errors |->
                      (IF ~is_nonempty_string(Get(n.meta, "id")) THEN <<ErrId>> ELSE <<>>)
                      \o (IF ~is_nonempty_string(Get(n.meta, "version"))
                          THEN <<ErrVersion>> ELSE <<>>)
                      \o (IF ~h.value THEN <<ErrDownloads>> ELSE <<>>),
                  meta |-> h.meta]

----------------------------------------------------------------------------
(* The records the functions are applied to.  A field given as Absent is   *)
(* left out of the record.                                                 *)

Absent == [k |-> "absent", v |-> <<>>]

MkDict(f) == [q \in {x \in DOMAIN f : f[x] # Absent} |-> f[q]]

Blank == Str(<<" ">>)

\* the releases a releases[] list is drawn from
ReleaseA ==
    Dict([version |-> Str(<<"1">>),
          date |-> Str(<<"d">>),
          changes |-> List(<<Str(<<"c">>)>>),
          downloads |-> Dict([fs20 |-> Dict([url |-> Str(<<"a">>),
                                             package_folders |-> List(<<Str(<<"p">>)>>)])])])
ReleaseB ==
    Dict([version |-> Str(<<"2">>),
          changes |-> Num,
          downloads |-> Dict([fs20 |-> Dict([url |-> Blank]),
                              fs24 |-> Dict([url |-> Str(<<"b">>),
                                             package_folders |-> Num])])])
ReleaseC ==
    Dict([version |-> Str(<<"1">>),
          downloads |-> Dict([fs20 |-> Num,
                              fs24 |-> Dict([url |-> Str(<<" ", "c">>),
                                             package_folders |-> List(<<Str(<<"q">>)>>)])])])
ReleaseD ==
    Dict([version |-> Blank, downloads |-> Num])
ReleaseE ==
    Dict([downloads |-> Dict([fs20 |-> Dict([url |-> Str(<<"a">>)]),
                              fs24 |-> Dict([url |-> Str(<<"b">>)])]),
          date |-> Num])
ReleaseF ==
    Dict([version |-> Num, changes |-> List(<<>>), downloads |-> Dict(EmptyDict)])

ReleasePool == {ReleaseA, ReleaseB, ReleaseC, ReleaseD, ReleaseE, ReleaseF, Num}

SeqsUpTo(S, n) == UNION {[1..len -> S] : len \in 0..n}

ReleasesValues == {Absent, Num} \cup {List(s) : s \in SeqsUpTo(ReleasePool, MaxReleases)}

LatestValues == {Absent, Blank, Str(<<"1">>), Str(<<"2">>), Num}

DownloadsPool == {Num, Dict([url |-> Blank]), Dict([label |-> Num, url |-> Str(<<"u">>)])}

DownloadsValues == {Absent, Num} \cup {List(s) : s \in SeqsUpTo(DownloadsPool, MaxDownloads)}

Legacy(id, version, d20, d24, a20, a24, p20, p24, downloads, changelog) ==
    [id |-> id, version |-> version,
     download_fs20 |-> d20, download_fs24 |-> d24,
     download_fs2020 |-> a20, download_fs2024 |-> a24,
     package_folders_fs20 |-> p20, package_folders_fs24 |-> p24,
     downloads |-> downloads, changelog |-> changelog]

Mk(legacy, latest, releases) ==
    MkDict([q \in (DOMAIN legacy) \cup {"latest_version", "releases"} |->
               IF q = "latest_version" THEN latest
               ELSE IF q = "releases" THEN releases
               ELSE legacy[q]])

OldFolders == List(<<Str(<<"o">>)>>)
OldChangelog == List(<<Dict([version |-> Str(<<"0">>)])>>)

\* every combination of the fields normalize_meta reads or writes
NormLegacy ==
    {Legacy(Str(<<"i">>), version, d20, d24, Absent, Absent, p20, p24, Absent, changelog) :
        version \in {Absent, Blank, Str(<<"9">>)},
        d20 \in {Absent, Blank, Str(<<"L">>)},
        d24 \in {Absent, Blank, Str(<<"L">>)},
        p20 \in {Absent, Num, OldFolders},
        p24 \in {Absent, Num, OldFolders},
        changelog \in {Absent, Num, OldChangelog}}

\* every combination of the fields validate_meta and has_any_download read
ValidLegacy ==
    {Legacy(id, version, d20, d24, a20, a24, Absent, Absent, downloads, Absent) :
        id \in {Absent, Blank, Str(<<"i">>)},
        version \in {Absent, Blank, Str(<<"9">>)},
        d20 \in {Absent, Str(<<"L">>)},
        d24 \in {Absent, Str(<<"L">>)},
        a20 \in {Absent, Str(<<"A">>)},
        a24 \in {Absent, Str(<<"A">>)},
        downloads \in DownloadsValues}

LegacyCore ==
    {Legacy(Absent, Absent, Absent, Absent, Absent, Absent, Absent, Absent, Absent, Absent),
     Legacy(Str(<<"i">>), Absent, Absent, Absent, Absent, Absent, Absent, Absent, Absent, Absent),
     Legacy(Str(<<"i">>), Str(<<"9">>), Str(<<"L">>), Absent, Absent, Absent, Absent, Absent,
            Absent, Absent),
     Legacy(Str(<<"i">>), Absent, Str(<<"L">>), Str(<<"L">>), Absent, Absent, OldFolders,
            OldFolders, Absent, OldChangelog),
     Legacy(Blank, Blank, Blank, Absent, Absent, Str(<<"A">>), Num, Absent, Num, Num)}

ReleaseCore ==
    {<<Absent, Absent>>,
     <<Str(<<"1">>), List(<<>>)>>,
     <<Str(<<"1">>), List(<<ReleaseA>>)>>,
     <<Str(<<"2">>), List(<<ReleaseA, ReleaseB>>)>>,
     <<Blank, List(<<ReleaseC, ReleaseA>>)>>,
     <<Str(<<"2">>), List(<<ReleaseE, ReleaseC>>)>>}

MetaUniverse ==
    {Mk(l, r[1], r[2]) : l \in NormLegacy, r \in ReleaseCore}
    \cup {Mk(l, r[1], r[2]) : l \in ValidLegacy, r \in {<<Absent, Absent>>,
                                                       <<Str(<<"2">>), List(<<ReleaseA, ReleaseB>>)>>}}
    \cup {Mk(l, latest, releases) :
            l \in LegacyCore, latest \in LatestValues, releases \in ReleasesValues}

----------------------------------------------------------------------------
(* SpecNorm: the functions applied to one record *)

NoRc == <<>>
PrevManifest == [generated_at |-> "t0", items |-> <<>>]

MainIdle ==
    /\ pc = "idle"
    /\ exists = FALSE
    /\ files = <<>>
    /\ idx = 0
    /\ items = <<>>
    /\ failed = FALSE
    /\ printed = <<>>
    /\ manifest = PrevManifest
    /\ rc = NoRc

InitNorm ==
    /\ meta \in MetaUniverse
    /\ arg = meta
    /\ call = "none"
    /\ ret = None
    /\ MainIdle

CallPick ==
    /\ pc = "idle"
    /\ call' = "_pick_latest_release"
    /\ arg' = meta
    /\ ret' = _pick_latest_release(meta)
    /\ UNCHANGED <<meta, mainVars>>

CallNormalize ==
    /\ pc = "idle"
    /\ call' = "normalize_meta"
    /\ arg' = meta
    /\ ret' = normalize_meta(meta).exc
    /\ meta' = normalize_meta(meta).meta
    /\ UNCHANGED mainVars

CallHasAnyDownload ==
    /\ pc = "idle"
    /\ call' = "has_any_download"
    /\ arg' = meta
    /\ ret' = [exc |-> has_any_download(meta).exc, value |-> has_any_download(meta).value]
    /\ meta' = has_any_download(meta).meta
    /\ UNCHANGED mainVars

CallValidate ==
    /\ pc = "idle"
    /\ call' = "validate_meta"
    /\ arg' = meta
    /\ ret' = validate_meta(meta).errors
    /\ meta' = validate_meta(meta).meta
    /\ UNCHANGED mainVars

NextNorm == CallPick \/ CallNormalize \/ CallHasAnyDownload \/ CallValidate

SpecNorm == InitNorm /\ [][NextNorm]_vars

----------------------------------------------------------------------------
(* Spec: a run of main *)

\* a file whose text json.loads rejects
InvalidJSON == [k |-> "invalid", v |-> <<>>]

NoLegacy == Legacy(Absent, Absent, Absent, Absent, Absent, Absent, Absent, Absent, Absent, Absent)
OnlyId == Legacy(Str(<<"i">>), Absent, Absent, Absent, Absent, Absent, Absent, Absent, Absent, Absent)

\* the records the files of a run hold
SourceRecords ==
    {\* legacy records that pass
     Mk(Legacy(Str(<<"i">>), Str(<<"9">>), Str(<<"L">>), Absent, Absent, Absent, Absent, Absent,
               Absent, Absent), Absent, Absent),
     Mk(Legacy(Str(<<"j">>), Str(<<"9">>), Absent, Absent, Str(<<"A">>), Str(<<"B">>), Absent,
               Absent, Absent, Absent), Absent, Absent),
     \* release-history records that pass
     Mk(OnlyId, Str(<<"2">>), List(<<ReleaseB, ReleaseA>>)),
     Mk(Legacy(Str(<<"k">>), Blank, Absent, Str(<<"L">>), Absent, Absent, Absent, Absent, Absent,
               Absent), Blank, List(<<ReleaseA>>)),
     \* release-history records with an empty releases list
     Mk(OnlyId, Str(<<"1">>), List(<<>>)),
     Mk(NoLegacy, Num, List(<<>>)),
     Mk(Legacy(Blank, Blank, Str(<<"L">>), Absent, Absent, Absent, Absent, Absent, Absent,
               Absent), Str(<<"1">>), List(<<>>)),
     \* records that break one or several rules
     Mk(NoLegacy, Absent, Absent),
     Mk(Legacy(Str(<<"i">>), Str(<<"9">>), Absent, Absent, Absent, Absent, Absent, Absent,
               List(<<Dict([url |-> Blank])>>), Absent), Absent, Absent),
     Mk(Legacy(Blank, Absent, Absent, Absent, Absent, Str(<<"A">>), Absent, Absent, Absent,
               Absent), Str(<<"1">>), Absent)}

\* what a *.meta.json file may hold
SourcePool == {InvalidJSON, Num, List(<<>>)} \cup {Dict(m) : m \in SourceRecords}

\* file names, numbered in their sorted order
Names == 1..MaxFiles

Directories == UNION {[S -> SourcePool] : S \in SUBSET Names}

\* sorted(...) of a set of names
Sorted(S) ==
    CHOOSE s \in [1..Cardinality(S) -> S] : \A i, j \in 1..Cardinality(S) : i < j => s[i] < s[j]

Discovered == Sorted(DOMAIN files)

Timestamps == {"t1", "t2"}

ErrInvalidJSON == "invalid JSON"
ErrRoot == "root JSON value must be an object"

Line(name, msg) == [file |-> name, msg |-> msg]

Init ==
    /\ meta = EmptyDict
    /\ arg = EmptyDict
    /\ call = "none"
    /\ ret = None
    /\ pc = "start"
    /\ exists \in BOOLEAN
    /\ files \in (IF exists THEN Directories ELSE {<<>>})
    /\ idx = 0
    /\ items = <<>>
    /\ failed = FALSE
    /\ printed = <<>>
    /\ manifest = PrevManifest
    /\ rc = NoRc

\* lines 155-157
Start ==
    /\ pc = "start"
    /\ IF exists
       THEN pc' = "loop" /\ rc' = rc
       ELSE pc' = "done" /\ rc' = <<1>>
    /\ UNCHANGED <<normVars, exists, files, idx, items, failed, printed, manifest>>

InLoop == pc = "loop" /\ idx < Len(Discovered)

Current == Discovered[idx + 1]

\* lines 163-168
LoadInvalidJSON ==
    /\ InLoop
    /\ files[Current] = InvalidJSON
    /\ printed' = Append(printed, Line(Current, ErrInvalidJSON))
    /\ failed' = TRUE
    /\ idx' = idx + 1
    /\ UNCHANGED <<normVars, pc, exists, files, items, manifest, rc>>

\* lines 170-173
LoadNonObject ==
    /\ InLoop
    /\ files[Current] # InvalidJSON
    /\ ~IsDict(files[Current])
    /\ printed' = Append(printed, Line(Current, ErrRoot))
    /\ failed' = TRUE
    /\ idx' = idx + 1
    /\ UNCHANGED <<normVars, pc, exists, files, items, manifest, rc>>

\* variant: only the first error of a record is printed
RecordRejected_FirstErrorOnly ==
    /\ InLoop
    /\ IsDict(files[Current])
    /\ LET errors == validate_meta(files[Current].v).errors
       IN  /\ errors # <<>>
           /\ printed' = Append(printed, Line(Current, errors[1]))
    /\ failed' = TRUE
    /\ idx' = idx + 1
    /\ UNCHANGED <<normVars, pc, exists, files, items, manifest, rc>>

\* lines 175-180
RecordRejected ==
    /\ InLoop
    /\ IsDict(files[Current])
    /\ LET errors == validate_meta(files[Current].v).errors
       IN  /\ errors # <<>>
           /\ printed' = printed \o [i \in 1..Len(errors) |-> Line(Current, errors[i])]
    /\ failed' = TRUE
    /\ idx' = idx + 1
    /\ UNCHANGED <<normVars, pc, exists, files, items, manifest, rc>>

\* variant: the record is put at the front of items
RecordAccepted_Prepends ==
    /\ InLoop
    /\ IsDict(files[Current])
    /\ LET v == validate_meta(files[Current].v)
       IN  /\ v.errors = <<>>
           /\ items' = <<normalize_meta(v.meta).meta>> \o items
    /\ idx' = idx + 1
    /\ UNCHANGED <<normVars, pc, exists, files, failed, printed, manifest, rc>>

\* lines 175-184
RecordAccepted ==
    /\ InLoop
    /\ IsDict(files[Current])
    /\ LET v == validate_meta(files[Current].v)
       IN  /\ v.errors = <<>>
           /\ items' = Append(items, normalize_meta(v.meta).meta)
    /\ idx' = idx + 1
    /\ UNCHANGED <<normVars, pc, exists, files, failed, printed, manifest, rc>>

\* variant: the manifest is written before failed is looked at
Finish_WritesFirst ==
    /\ pc = "loop"
    /\ idx = Len(Discovered)
    /\ \E t \in Timestamps : manifest' = [generated_at |-> t, items |-> items]
    /\ rc' = IF failed THEN <<1>> ELSE <<0>>
    /\ pc' = "done"
    /\ UNCHANGED <<normVars, exists, files, idx, items, failed, printed>>

\* lines 186-198
Finish ==
    /\ pc = "loop"
    /\ idx = Len(Discovered)
    /\ IF failed
       THEN rc' = <<1>> /\ manifest' = manifest
       ELSE /\ rc' = <<0>>
            /\ \E t \in Timestamps : manifest' = [generated_at |-> t, items |-> items]
    /\ pc' = "done"
    /\ UNCHANGED <<normVars, exists, files, idx, items, failed, printed>>

Next ==
    \/ Start
    \/ LoadInvalidJSON
    \/ LoadNonObject
    \/ RecordRejected
    \/ RecordAccepted
    \/ Finish

Spec == Init /\ [][Next]_vars

----------------------------------------------------------------------------
(* Properties of the functions (SpecNorm).  "Non-empty" is the code's      *)
(* is_nonempty_string throughout: a string that is not blank once          *)
(* stripped.                                                               *)

VersionOf(r) == IF IsDict(r) THEN Get(r.v, "version") ELSE None

HasReleases(m) == IsList(Get(m, "releases")) /\ Get(m, "releases").v # <<>>

HasMatch(m) ==
    /\ is_nonempty_string(Get(m, "latest_version"))
    /\ \E i \in 1..Len(m["releases"].v) : VersionOf(m["releases"].v[i]) = m["latest_version"]

FirstMatch(m) ==
    m["releases"].v[Min({i \in 1..Len(m["releases"].v) :
                            VersionOf(m["releases"].v[i]) = m["latest_version"]})]

\* C3: when normalization succeeds, validate_meta returns one error per broken rule
\* among id, version, download, in that order and without stopping at the first.
C3_HasDownload(n) ==
    \/ \E f \in {"download_fs20", "download_fs24", "download_fs2020", "download_fs2024"} :
          is_nonempty_string(Get(n, f))
    \/ /\ IsList(Get(n, "downloads"))
       /\ \E i \in 1..Len(n["downloads"].v) :
             /\ IsDict(n["downloads"].v[i])
             /\ is_nonempty_string(Get(n["downloads"].v[i].v, "url"))

C3_Expected(n) ==
    (IF is_nonempty_string(Get(n, "id")) THEN <<>> ELSE <<ErrId>>)
    \o (IF is_nonempty_string(Get(n, "version")) THEN <<>> ELSE <<ErrVersion>>)
    \o (IF C3_HasDownload(n) THEN <<>> ELSE <<ErrDownloads>>)

C3_OneErrorPerRule ==
    (call = "validate_meta" /\ normalize_meta(arg).exc = NoExc)
        => ret = C3_Expected(normalize_meta(arg).meta)

C3_Witness ==
    /\ call = "validate_meta"
    /\ is_nonempty_string(Get(arg, "id"))
    /\ is_nonempty_string(Get(arg, "version"))
    /\ ret = <<ErrDownloads>>

\* C4: normalize_meta leaves a non-empty download_fs20 / download_fs24, a list-valued
\* package_folders_fs20 / package_folders_fs24, a list-valued changelog and a non-empty
\* version as they were.
C4_Kept(field) == field \in DOMAIN meta /\ meta[field] = arg[field]

C4_LegacyFieldsKept ==
    call = "normalize_meta" =>
        /\ \A f \in {"download_fs20", "download_fs24", "version"} :
              is_nonempty_string(Get(arg, f)) => C4_Kept(f)
        /\ \A f \in {"package_folders_fs20", "package_folders_fs24", "changelog"} :
              IsList(Get(arg, f)) => C4_Kept(f)

C4_Witness ==
    /\ call = "normalize_meta"
    /\ ret = NoExc
    /\ meta # arg
    /\ arg["releases"] = List(<<ReleaseA>>)
    /\ Get(arg, "download_fs20") = Str(<<"L">>)
    /\ Get(arg, "package_folders_fs20") = OldFolders
    /\ Get(arg, "changelog") = OldChangelog
    /\ Get(meta, "download_fs20") = Str(<<"L">>)

\* C5 as stated, for a release-history record whose latest_version is a string: the
\* selected release is the first element of releases whose version equals
\* latest_version, and releases[0] when nothing matches or latest_version is empty.
ReleaseHistoryShaped(m) ==
    /\ HasReleases(m)
    /\ "latest_version" \in DOMAIN m
    /\ ~is_nonempty_string(Get(m, "version"))

C6_Legacy(m) ==
    /\ is_nonempty_string(Get(m, "id"))
    /\ is_nonempty_string(Get(m, "version"))
    /\ C3_HasDownload(m)

C6_LegacyNoOp ==
    C6_Legacy(arg) =>
        /\ call = "normalize_meta" =>
              ret = NoExc /\ meta = arg /\ normalize_meta(meta) = [exc |-> NoExc, meta |-> arg]
        /\ call = "validate_meta" => ret = <<>> /\ meta = arg

C6_Witness ==
    /\ call = "normalize_meta"
    /\ C6_Legacy(arg)
    /\ Get(arg, "version") = Str(<<"9">>)
    /\ Get(arg, "latest_version") = Str(<<"2">>)
    /\ Get(arg, "releases") = List(<<ReleaseA, ReleaseB>>)
    /\ meta = arg

\* C9: for a release-history record without legacy fields, a successful normalize_meta
\* sets version to latest_version when that is non-empty and to the selected release's
\* version otherwise, sets download_fs20 / download_fs24 exactly where the selected
\* release has a non-empty url, and gives changelog one entry per release with a
\* non-empty version, in the order of releases (no changelog when there is none).
C9_Pre(m) ==
    /\ ReleaseHistoryShaped(m)
    /\ DOMAIN m \cap {"download_fs20", "download_fs24", "package_folders_fs20",
                      "package_folders_fs24", "changelog"} = {}

C9_Selected(m) == IF HasMatch(m) THEN FirstMatch(m) ELSE m["releases"].v[1]

C9_Url(rel, platform) ==
    IF /\ IsDict(rel)
       /\ IsDict(Get(rel.v, "downloads"))
       /\ IsDict(Get(rel.v["downloads"].v, platform))
    THEN Get(rel.v["downloads"].v[platform].v, "url")
    ELSE None

C9_Entries(m) == IF "changelog" \in DOMAIN m THEN m["changelog"].v ELSE <<>>

C9_Versioned(m) ==
    SelectSeq(m["releases"].v, LAMBDA r : is_nonempty_string(VersionOf(r)))

----------------------------------------------------------------------------
(* Properties of a run of main (Spec).  They are about runs in which the   *)
(* liveries/ folder exists, so that sources are discovered.                *)

Written == manifest # PrevManifest

SourceOk(name) == IsDict(files[name]) /\ validate_meta(files[name].v).errors = <<>>

AllSourcesOk == \A name \in DOMAIN files : SourceOk(name)

\* the lines a source must give rise to
ExpectedLines(name) ==
    IF files[name] = InvalidJSON THEN <<Line(name, ErrInvalidJSON)>>
    ELSE IF ~IsDict(files[name]) THEN <<Line(name, ErrRoot)>>
    ELSE LET errors == validate_meta(files[name].v).errors
         IN  [i \in 1..Len(errors) |-> Line(name, errors[i])]

RECURSIVE ExpectedPrinted(_)
ExpectedPrinted(n) ==
    IF n = 0 THEN <<>> ELSE ExpectedPrinted(n - 1) \o ExpectedLines(Discovered[n])

LinesOf(name) == SelectSeq(printed, LAMBDA l : l.file = name)

\* C1: the manifest is written if and only if every discovered source is an object
\* without validation errors; otherwise the previous manifest stays and main returns
\* non-zero; and nothing is written before the last source has been processed.
C1_AllOrNothing ==
    /\ (exists /\ pc = "done") => (Written <=> AllSourcesOk)
    /\ (exists /\ pc = "done" /\ ~AllSourcesOk) => (manifest = PrevManifest /\ rc = <<1>>)
    /\ Written => (pc = "done" /\ idx = Cardinality(DOMAIN files) /\ rc = <<0>>)

C1_Witness ==
    /\ pc = "done"
    /\ exists
    /\ items # <<>>
    /\ ~AllSourcesOk
    /\ manifest = PrevManifest
    /\ rc = <<1>>

\* C2: a source that fails does not stop the loop: when main decides, every discovered
\* source has been processed and every error of every source has been printed with
\* the name of its source, in the order of discovery.
C2_AllErrorsReported ==
    (exists /\ pc \in {"loop", "done"}) =>
        /\ printed = ExpectedPrinted(idx)
        /\ pc = "done" => idx = Len(Discovered)

C2_Witness ==
    /\ pc = "done"
    /\ DOMAIN files = {1, 2}
    /\ files[1] = InvalidJSON
    /\ Len(LinesOf(1)) = 1
    /\ Len(LinesOf(2)) = 3

\* C7: in a written manifest, the item of a record that carried download_fs2020
\* (download_fs2024) and no download_fs20 (download_fs24) has the canonical field set
\* to the alias value and still has the alias.
C7_AliasCopied ==
    (pc = "done" /\ Written) =>
        \A i \in 1..Len(manifest.items) :
            \A p \in {<<"download_fs2020", "download_fs20">>,
                      <<"download_fs2024", "download_fs24">>} :
                LET raw == files[Discovered[i]].v
                    item == manifest.items[i]
                IN  (p[1] \in DOMAIN raw /\ p[2] \notin DOMAIN raw) =>
                        /\ Get(item, p[2]) = raw[p[1]]
                        /\ Get(item, p[1]) = raw[p[1]]

\* C8: a record with latest_version, an empty releases list and no non-empty version
\* gives exactly one error, the derivation error, whatever else it holds; it is not
\* put in items; and the other sources of the run are still evaluated and reported.
C8_Pre(content) ==
    /\ IsDict(content)
    /\ "latest_version" \in DOMAIN content.v
    /\ Get(content.v, "releases") = List(<<>>)
    /\ ~is_nonempty_string(Get(content.v, "version"))

C8_AnyFields ==
    \A m \in MetaUniverse :
        C8_Pre(Dict(m)) => validate_meta(m) = [errors |-> <<ExcNoReleases>>, meta |-> m]

C8_EmptyReleases ==
    /\ C8_AnyFields
    /\ \A n \in 1..idx :
          C8_Pre(files[Discovered[n]]) =>
              /\ LinesOf(Discovered[n]) = <<Line(Discovered[n], ExcNoReleases)>>
              /\ \A i \in 1..Len(items) : items[i] # files[Discovered[n]].v
              /\ failed
    /\ (pc = "done" /\ \E name \in DOMAIN files : C8_Pre(files[name])) =>
          /\ idx = Len(Discovered)
          /\ \A name \in DOMAIN files : LinesOf(name) = ExpectedLines(name)
          /\ \A i \in 1..Len(manifest.items) :
                \A name \in DOMAIN files : C8_Pre(files[name]) => manifest.items[i] # files[name].v

C8_Witness ==
    /\ pc = "done"
    /\ DOMAIN files = {1, 2}
    /\ C8_Pre(files[1])
    /\ "id" \notin DOMAIN files[1].v
    /\ LinesOf(1) = <<Line(1, ExcNoReleases)>>
    /\ Len(LinesOf(2)) = 3
    /\ items = <<>>

\* C10: the items of a written manifest are the normalized records of all discovered
\* sources, one per source, in the sorted order of discovery.
C10_ItemsInDiscoveryOrder ==
    (pc = "done" /\ Written) =>
        manifest.items = [i \in 1..Len(Discovered) |-> normalize_meta(files[Discovered[i]].v).meta]

C10_Witness ==
    /\ pc = "done"
    /\ Written
    /\ Len(manifest.items) = 2
    /\ manifest.items[1] # manifest.items[2]
    /\ manifest.items[1] # files[1].v
    /\ manifest.items[2] = files[2].v

=============================================================================
